---- MODULE Spec2Model ----
(***************************************************************************)
(* A model of sams_bot.py: the market-regime classifier, the universe      *)
(* fetch, the fundamental / technical filters, the two signal detectors,   *)
(* the position sizer and the run_bot pipeline that chains them.           *)
(*                                                                         *)
(* Numbers.  Prices are positive integers.  Products with the 0.96 / 1.06  *)
(* ratios and the 0.02 risk fraction are kept exactly in hundredths, the   *)
(* debt-to-equity ratio in tenths.  The exponentially weighted mean is     *)
(* compared through weights kept in fixed point.            An optional    *)
(* value (Optional[...] in the source) is a sequence of length 0 or 1.     *)
(***************************************************************************)
EXTENDS Integers, Sequences, FiniteSets, TLC

VARIABLES
    pc,                     \* position of run_bot
    regime,                 \* run_bot: regime
    attempt,                \* fetch_nifty500_symbols: attempt (0 outside it)
    symbols,                \* run_bot: symbols
    idx,                    \* position of the running for loop (1-based)
    qualified_fundamentals, \* run_bot: qualified_fundamentals
    qualified_stocks,       \* run_bot: qualified_stocks
    signaled,               \* run_bot: signaled
    data,                   \* run_bot: data (the frame of the last download)
    dataFor,                \* the stage and stock `data` was downloaded for
    log_calls,              \* the calls of log_trade, in order
    messages,               \* the calls of send_telegram_message, in order
    charts,                 \* the stocks save_chart wrote a chart for
    market,                 \* what the two market-wide downloads gave
    universe,               \* what fetch_nifty500_symbols ended with
    sectorOf,               \* what get_sector returned, per screened symbol
    fundOf,                 \* what get_fundamentals returned, per symbol
    screened,               \* symbols whose iteration of the first loop ran
    techSeen,               \* stocks whose iteration of the second loop ran
    sigSeen,                \* stocks whose iteration of the third loop ran
    problems,               \* <<stock, what>>: the per-symbol failures met
    arg,                    \* input of the function under test
    ret                     \* its result

vars == <<pc, regime, attempt, symbols, idx, qualified_fundamentals,
          qualified_stocks, signaled, data, dataFor, log_calls, messages,
          charts, market, universe, sectorOf, fundOf, screened, techSeen,
          sigSeen, problems, arg, ret>>

runVars == <<pc, regime, attempt, symbols, idx, qualified_fundamentals,
             qualified_stocks, signaled, data, dataFor, log_calls, messages,
             charts, market, universe, sectorOf, fundOf, screened, techSeen,
             sigSeen, problems>>

(***************************************************************************)
(* Bounds of the model.                                                    *)
(***************************************************************************)
MaxRaw == 2       \* rows of the scraped Symbol column
BasePrice == 2    \* the close a column of the model holds before its last bars

(***************************************************************************)
(* Constants of the program.                                               *)
(***************************************************************************)
EXCLUDED_SECTORS ==
    {"Alcoholic Beverages", "Breweries & Distilleries", "Media",
     "Media & Entertainment", "Banking", "Finance", "Financial Services",
     "NBFC"}
REGIME_MIN_NIFTY == 220
REGIME_MIN_VIX == 10
VIX_BULL == 15
VIX_BEAR == 20
SMA_LONG == 200
SMA_100 == 100
SMA_50 == 50
SMA_20 == 20
EMA_SPAN == 20
TECH_MIN_BARS == 210
RES_FROM == 10
RES_TO == 3
MAX_RETRIES == 3
HTTP_OK == 200
MIN_MARKET_CAP == 500
MAX_D2E_TENTHS == 2
MIN_ROCE == 20
MIN_SALES_GROWTH == 10
MIN_PROFIT_GROWTH == 15
CAPITAL == 100000
RISK_HUNDREDTHS == 2
STOP_PCT == 96
TARGET_PCT == 106
WtScale == 10000

(***************************************************************************)
(* Sequences and optional values.                                          *)
(***************************************************************************)
None == <<>>
Some(v) == <<v>>
Range(s) == {s[i] : i \in 1..Len(s)}
Last(s) == s[Len(s)]
SeqsUpTo(S, n) == UNION {[1..k -> S] : k \in 0..n}
Abs(x) == IF x < 0 THEN -x ELSE x

RECURSIVE SumRange(_, _, _)
\* s[lo] + ... + s[hi], by halves
SumRange(s, lo, hi) ==
    IF lo > hi THEN 0
    ELSE IF lo = hi THEN s[lo]
    ELSE LET mid == (lo + hi) \div 2
         IN  SumRange(s, lo, mid) + SumRange(s, mid + 1, hi)

\* the sum of the last n elements of s (n <= Len(s))
SumLast(s, n) == SumRange(s, Len(s) - n + 1, Len(s))

RECURSIVE MaxOver(_, _, _)
\* the greatest of s[lo..hi] (lo <= hi)
MaxOver(s, lo, hi) ==
    IF lo = hi THEN s[lo]
    ELSE LET m == MaxOver(s, lo + 1, hi) IN IF s[lo] > m THEN s[lo] ELSE m

(***************************************************************************)
(* pandas: close.rolling(n).mean().iloc[-1] is NaN on fewer than n rows,   *)
(* and every comparison with NaN is False.                                 *)
(***************************************************************************)
GtRollingMean(price, close, n) ==
    /\ Len(close) >= n
    /\ price * n > SumLast(close, n)

LtRollingMean(price, close, n) ==
    /\ Len(close) >= n
    /\ price * n < SumLast(close, n)

(***************************************************************************)
(* pandas: close.ewm(span).mean(), adjust=True:                            *)
(*   ema[t] = sum_i (1-alpha)^i close[t-i] / sum_i (1-alpha)^i,            *)
(* i = 0..t-1, 1 - alpha = (span-1)/(span+1).  The weights are kept in     *)
(* fixed point (scale WtScale); close[t] is compared with ema[t] by the    *)
(* sign of sum_i weight(i) * (close[t-i] - close[t]), which is exact for   *)
(* these weights, and zero on a constant column.                           *)
(***************************************************************************)
RECURSIVE EwmWeight(_)
EwmWeight(i) ==
    IF i = 0 THEN WtScale
    ELSE IF i = 1 THEN (WtScale * (EMA_SPAN - 1)) \div (EMA_SPAN + 1)
    ELSE IF i % 2 = 0
    THEN LET h == EwmWeight(i \div 2) IN (h * h) \div WtScale
    ELSE (EwmWeight(i - 1) * EwmWeight(1)) \div WtScale

\* the weights of the rows a column of the model can have
MaxRows == REGIME_MIN_NIFTY + 1
EwmWeights == [i \in 0..MaxRows |-> EwmWeight(i)]

RECURSIVE EwmExcess(_, _, _, _)
\* sum over j in lo..hi of weight(t-j) * (close[j] - close[t])
EwmExcess(close, t, lo, hi) ==
    IF lo > hi THEN 0
    ELSE IF lo = hi THEN EwmWeights[t - lo] * (close[lo] - close[t])
    ELSE LET mid == (lo + hi) \div 2
         IN  EwmExcess(close, t, lo, mid) + EwmExcess(close, t, mid + 1, hi)

\* close.iloc[t] > ema.iloc[t] and close.iloc[t] < ema.iloc[t]
GtEwm(close, t) == EwmExcess(close, t, 1, t) < 0
LtEwm(close, t) == EwmExcess(close, t, 1, t) > 0

(***************************************************************************)
(* Frames.  yf.download gives None, or a frame; a frame may lack its       *)
(* columns (kind "NoClose"), and a frame of no rows is empty.              *)
(***************************************************************************)
Frame(close, high) ==
    [kind |-> "Frame", rows |-> Len(close), Close |-> close, High |-> high]
NoneFrame == [kind |-> "None", rows |-> 0, Close |-> <<>>, High |-> <<>>]
NoCloseFrame(n) ==
    [kind |-> "NoClose", rows |-> n, Close |-> <<>>, High |-> <<>>]
IsNoneOrEmpty(df) == df.kind = "None" \/ df.rows = 0

\* Faulty variant of classify_market_regime: 200 index closes are enough
classify_market_regime_From200(mk) ==
    IF mk.err THEN "Neutral"
    ELSE IF Len(mk.nifty) < SMA_LONG \/ Len(mk.vix) < REGIME_MIN_VIX
    THEN "Neutral"
    ELSE IF GtRollingMean(Last(mk.nifty), mk.nifty, SMA_LONG)
            /\ Last(mk.vix) < VIX_BULL
    THEN "Bullish"
    ELSE IF LtRollingMean(Last(mk.nifty), mk.nifty, SMA_LONG)
            \/ Last(mk.vix) > VIX_BEAR
    THEN "Bearish"
    ELSE "Neutral"

(***************************************************************************)
(* classify_market_regime.  mk.err: a download, or the work on its result, *)
(* raised; mk.nifty, mk.vix: the two Close columns after dropna().         *)
(***************************************************************************)
classify_market_regime(mk) ==
    IF mk.err THEN "Neutral"
    ELSE IF Len(mk.nifty) < REGIME_MIN_NIFTY \/ Len(mk.vix) < REGIME_MIN_VIX
    THEN "Neutral"
    ELSE LET price == Last(mk.nifty)
             vix_last == Last(mk.vix)
         IN  IF GtRollingMean(price, mk.nifty, SMA_LONG) /\ vix_last < VIX_BULL
             THEN "Bullish"
             ELSE IF LtRollingMean(price, mk.nifty, SMA_LONG)
                     \/ vix_last > VIX_BEAR
             THEN "Bearish"
             ELSE "Neutral"

(***************************************************************************)
(* fetch_nifty500_symbols: the Symbol column, cleaned.                     *)
(***************************************************************************)
NaNCell == "<NaN>"
SymbolNames == {"A", "B"}
RawCells == {"A", "A ", "B", NaNCell}

\* str.strip on the cells of the model
Strip(c) == IF c = "A " THEN "A" ELSE c

RECURSIVE DropNa(_)
DropNa(col) ==
    IF col = <<>> THEN <<>>
    ELSE IF col[1] = NaNCell THEN DropNa(Tail(col))
    ELSE <<col[1]>> \o DropNa(Tail(col))

RECURSIVE Unique(_)
\* pandas unique(): the first occurrence of each value, in order
Unique(col) ==
    IF col = <<>> THEN <<>>
    ELSE LET init == Unique(SubSeq(col, 1, Len(col) - 1))
         IN  IF Last(col) \in Range(init) THEN init ELSE Append(init, Last(col))

\* df["Symbol"].dropna().astype(str).str.strip().unique().tolist()
SymbolColumn(col) ==
    LET kept == DropNa(col)
    IN  Unique([i \in 1..Len(kept) |-> Strip(kept[i])])

\* one Wikipedia attempt: the symbols it returns, or None to go on
WikiAttemptResult(w) ==
    IF w.kind = "Table" THEN Some(SymbolColumn(w.col)) ELSE None

\* the NSE CSV fallback: the symbols it returns, or None to raise
FallbackResult(f) ==
    IF f.kind = "Table" THEN Some(SymbolColumn(f.col)) ELSE None

(***************************************************************************)
(* Screener scraping.  A scraped text is [num, val]: a text float() reads  *)
(* as val, or one it rejects.                                              *)
(***************************************************************************)
_to_float(val) ==
    IF val = None THEN None
    ELSE IF val[1].num THEN Some(val[1].val) ELSE None

FundFields ==
    {"market_cap", "roce", "debt_to_equity", "sales_growth_5y",
     "profit_growth_5y"}

\* page: [exc, status, sector, cells]; cells maps a field to its text
get_fundamentals(page) ==
    IF page.exc THEN None
    ELSE IF page.status # HTTP_OK THEN None
    ELSE LET f == [k \in FundFields |-> _to_float(page.cells[k])]
         IN  IF \E k \in FundFields : f[k] = None THEN None
             ELSE Some([k \in FundFields |-> f[k][1]])

get_sector(page) ==
    IF page.exc THEN None
    ELSE IF page.status # HTTP_OK THEN None
    ELSE page.sector

\* Faulty variant of passes_fundamental_filters: market cap on its
\* threshold passes
passes_fundamental_filters_NonStrict(f) ==
    /\ f["market_cap"] >= MIN_MARKET_CAP
    /\ f["debt_to_equity"] < MAX_D2E_TENTHS
    /\ f["roce"] > MIN_ROCE
    /\ f["sales_growth_5y"] > MIN_SALES_GROWTH
    /\ f["profit_growth_5y"] > MIN_PROFIT_GROWTH

(***************************************************************************)
(* Filters.                                                                *)
(***************************************************************************)
passes_fundamental_filters(f) ==
    /\ f["market_cap"] > MIN_MARKET_CAP
    /\ f["debt_to_equity"] < MAX_D2E_TENTHS
    /\ f["roce"] > MIN_ROCE
    /\ f["sales_growth_5y"] > MIN_SALES_GROWTH
    /\ f["profit_growth_5y"] > MIN_PROFIT_GROWTH

\* "True", "False", or "Raise" (df["Close"] on a frame without the column)
passes_technical_filters(df) ==
    IF IsNoneOrEmpty(df) \/ df.rows < TECH_MIN_BARS THEN "False"
    ELSE IF df.kind = "NoClose" THEN "Raise"
    ELSE LET close == df.Close
             price == Last(close)
         IN  IF /\ GtRollingMean(price, close, SMA_20)
                /\ GtRollingMean(price, close, SMA_50)
                /\ GtRollingMean(price, close, SMA_100)
                /\ GtRollingMean(price, close, SMA_LONG)
             THEN "True" ELSE "False"

(***************************************************************************)
(* Signals.  "Raise": indexing a frame that is None, lacks the column or   *)
(* has no rows.                                                            *)
(***************************************************************************)
detect_pullback(df) ==
    IF df.kind # "Frame" \/ df.rows = 0 THEN "Raise"
    ELSE LET close == df.Close
             n == Len(close)
         IN  IF /\ GtRollingMean(close[n], close, SMA_LONG)
                /\ LtEwm(close, n - 1)
                /\ GtEwm(close, n)
             THEN "True" ELSE "False"

detect_breakout(df) ==
    IF df.kind # "Frame" \/ df.rows = 0 THEN "Raise"
    ELSE LET close == df.Close
             n == Len(close)
             lo == IF n > RES_FROM THEN n - RES_FROM + 1 ELSE 1
             hi == n - RES_TO
         IN  IF hi < lo THEN "False"       \* max() of no rows is NaN
             ELSE LET resistance == MaxOver(close, lo, hi)
                  IN  IF close[n] > resistance /\ df.High[n] > resistance
                      THEN "True" ELSE "False"

\* Faulty variant of SignalOf: the breakout is tested first
SignalOf_BreakoutFirst(df) ==
    LET b == detect_breakout(df)
    IN  IF b = "Raise" THEN "Raise"
        ELSE IF b = "True" THEN "Breakout"
        ELSE LET p == detect_pullback(df)
             IN  IF p = "Raise" THEN "Raise"
                 ELSE IF p = "True" THEN "Pullback"
                 ELSE "NoSignal"

\* the if / elif of the third loop: pullback first, then breakout
SignalOf(df) ==
    LET p == detect_pullback(df)
    IN  IF p = "Raise" THEN "Raise"
        ELSE IF p = "True" THEN "Pullback"
        ELSE LET b == detect_breakout(df)
             IN  IF b = "Raise" THEN "Raise"
                 ELSE IF b = "True" THEN "Breakout"
                 ELSE "NoSignal"

\* Faulty variant of calculate_position_size: abs() is missing
calculate_position_size_NoAbs(capital, risk_per_trade, entry, stop) ==
    LET stop_points == entry - stop
    IN  IF stop_points <= 0 THEN 0
        ELSE (capital * risk_per_trade) \div stop_points

(***************************************************************************)
(* Risk.  entry and stop in hundredths, risk_per_trade in hundredths.      *)
(***************************************************************************)
calculate_position_size(capital, risk_per_trade, entry, stop) ==
    LET stop_points == Abs(entry - stop)
    IN  IF stop_points <= 0 THEN 0
        ELSE (capital * risk_per_trade) \div stop_points

(***************************************************************************)
(* The inputs the collaborators can give.                                  *)
(***************************************************************************)
Prices == (BasePrice - 1)..(BasePrice + 1)

\* a close column of n rows: b, ..., b, x, y
MkClose(n, sh) ==
    [i \in 1..n |-> IF i = n THEN sh[3] ELSE IF i = n - 1 THEN sh[2] ELSE sh[1]]

\* the last close dips, stays or rises after a dip or a flat bar
MarketShapes ==
    {sh \in {BasePrice} \X Prices \X Prices : sh[2] <= sh[1]}

\* the last close stays or rises after a dip or a flat bar
Shapes == {sh \in MarketShapes : sh[3] >= sh[1]}

FramesOf(lens) ==
    {NoneFrame, Frame(<<>>, <<>>), NoCloseFrame(TECH_MIN_BARS)}
    \cup {Frame(MkClose(n, sh), MkClose(n, sh)) : n \in lens, sh \in Shapes}

\* yf.download: it raises, or gives a frame
DownloadsOf(lens) ==
    {[exc |-> TRUE, df |-> NoneFrame]}
    \cup {[exc |-> FALSE, df |-> f] : f \in FramesOf(lens)}

TechLens == {TECH_MIN_BARS - 1, TECH_MIN_BARS}
SignalLens == {RES_TO + 1, SMA_LONG, TECH_MIN_BARS}

AllFrames == FramesOf(TechLens \cup SignalLens)
TechDownloads == DownloadsOf(TechLens)
SignalDownloads == DownloadsOf(SignalLens)

\* the verdicts on every frame of the model, computed once
TechnicalVerdict == [f \in AllFrames |-> passes_technical_filters(f)]
PullbackVerdict == [f \in AllFrames |-> detect_pullback(f)]
BreakoutVerdict == [f \in AllFrames |-> detect_breakout(f)]
SignalVerdict == [f \in AllFrames |-> SignalOf(f)]

NiftyLens == {0, SMA_LONG - 1, SMA_LONG, REGIME_MIN_NIFTY - 1,
              REGIME_MIN_NIFTY, REGIME_MIN_NIFTY + 1}
VixLens == {0, REGIME_MIN_VIX - 1, REGIME_MIN_VIX}
VixLevels == {VIX_BULL - 1, VIX_BULL, VIX_BEAR, VIX_BEAR + 1}

MarketInputs ==
    {[err |-> TRUE, nifty |-> <<>>, vix |-> <<>>]}
    \cup {[err |-> FALSE, nifty |-> MkClose(n, sh),
           vix |-> [i \in 1..m |-> v]] :
            n \in NiftyLens, sh \in MarketShapes, m \in VixLens, v \in VixLevels}

UniverseInputs ==
    {[kind |-> "Exc", col |-> <<>>], [kind |-> "NoSymbol", col |-> <<>>]}
    \cup {[kind |-> "Table", col |-> c] : c \in SeqsUpTo(RawCells, MaxRaw)}

Num(v) == Some([num |-> TRUE, val |-> v])
Garbage == Some([num |-> FALSE, val |-> 0])

GoodCells ==
    [k \in FundFields |->
        IF k = "market_cap" THEN Num(MIN_MARKET_CAP + 1)
        ELSE IF k = "roce" THEN Num(MIN_ROCE + 1)
        ELSE IF k = "debt_to_equity" THEN Num(MAX_D2E_TENTHS - 1)
        ELSE IF k = "sales_growth_5y" THEN Num(MIN_SALES_GROWTH + 1)
        ELSE Num(MIN_PROFIT_GROWTH + 1)]

Page(exc, status, sector, cells) ==
    [exc |-> exc, status |-> status, sector |-> sector, cells |-> cells]

SectorPages ==
    {Page(TRUE, 0, None, GoodCells), Page(FALSE, 404, None, GoodCells)}
    \cup {Page(FALSE, HTTP_OK, s, GoodCells) :
            s \in {None, Some("Banking"), Some("Pharmaceuticals")}}

FundPages ==
    {Page(TRUE, 0, None, GoodCells), Page(FALSE, 404, None, GoodCells),
     Page(FALSE, HTTP_OK, None, GoodCells),
     Page(FALSE, HTTP_OK, None, [GoodCells EXCEPT !["roce"] = None]),
     Page(FALSE, HTTP_OK, None, [GoodCells EXCEPT !["market_cap"] = Garbage]),
     Page(FALSE, HTTP_OK, None,
          [GoodCells EXCEPT !["roce"] = Num(MIN_ROCE)])}

(***************************************************************************)
(* run_bot.                                                                *)
(***************************************************************************)
Msg(kind, stocks, qty, entry, stop, target) ==
    [kind |-> kind, stocks |-> stocks, quantity |-> qty, entry |-> entry,
     stop_loss |-> stop, target |-> target]

NoDataFor == [stage |-> "none", stock |-> ""]

RunInit ==
    /\ pc = "regime"
    /\ regime = "unset"
    /\ attempt = 0
    /\ symbols = <<>>
    /\ idx = 1
    /\ qualified_fundamentals = <<>>
    /\ qualified_stocks = <<>>
    /\ signaled = <<>>
    /\ data = NoneFrame
    /\ dataFor = NoDataFor
    /\ log_calls = <<>>
    /\ messages = <<>>
    /\ charts = {}
    /\ market = "unset"
    /\ universe = "unset"
    /\ sectorOf = [s \in SymbolNames |-> None]
    /\ fundOf = [s \in SymbolNames |-> None]
    /\ screened = {}
    /\ techSeen = {}
    /\ sigSeen = {}
    /\ problems = {}

NoCall == [fn |-> "none"]

Init ==
    /\ RunInit
    /\ arg = NoCall
    /\ ret = NoCall

\* Faulty variant of AfterRegime: the Bearish return is missing
AfterRegime_NoReturn(r) == "wiki"

\* where run_bot goes after the regime is known
AfterRegime(r) == IF r = "Bearish" THEN "done" ELSE "wiki"

\* the market-wide series were not obtained at all
MarketUnobtained(mk) == mk.err \/ mk.nifty = <<>> \/ mk.vix = <<>>

Classify(mk) ==
    /\ pc = "regime"
    /\ regime' = classify_market_regime(mk)
    /\ market' = IF MarketUnobtained(mk) THEN "failed" ELSE "obtained"
    /\ messages' =
          messages \o <<Msg("regime", <<regime'>>, 0, 0, 0, 0)>>
          \o (IF AfterRegime(regime') = "done"
              THEN <<Msg("no_trades", <<>>, 0, 0, 0, 0)>> ELSE <<>>)
    /\ pc' = AfterRegime(regime')
    /\ attempt' = IF pc' = "wiki" THEN 1 ELSE 0
    /\ UNCHANGED universe
    /\ UNCHANGED <<symbols, idx, qualified_fundamentals,
                   qualified_stocks, signaled, data, dataFor, log_calls,
                   charts, sectorOf, fundOf, screened, techSeen, sigSeen,
                   problems, arg, ret>>

\* where fetch_nifty500_symbols goes after a Wikipedia attempt gave nothing
AfterFailedAttempt(a) == IF a >= MAX_RETRIES THEN "fallback" ELSE "wiki"

WikiAttempt(w) ==
    /\ pc = "wiki"
    /\ attempt <= MAX_RETRIES
    /\ LET r == WikiAttemptResult(w)
       IN  IF r # None
           THEN /\ symbols' = r[1]
                /\ pc' = "fund"
                /\ attempt' = 0
                /\ universe' = "obtained"
           ELSE /\ symbols' = symbols
                /\ pc' = AfterFailedAttempt(attempt)
                /\ attempt' = attempt + 1
                /\ universe' = universe
    /\ idx' = 1
    /\ UNCHANGED <<regime, qualified_fundamentals, qualified_stocks, signaled,
                   data, dataFor, log_calls, messages, charts, market,
                   sectorOf, fundOf, screened, techSeen, sigSeen, problems,
                   arg, ret>>

\* Faulty variant of AfterFailedFallback: no raise, the run goes on
AfterFailedFallback_GoesOn == "fund"

\* where the run goes when the fallback gave nothing: RuntimeError
AfterFailedFallback == "aborted"

Fallback(f) ==
    /\ pc = "fallback"
    /\ LET r == FallbackResult(f)
       IN  IF r # None
           THEN symbols' = r[1] /\ pc' = "fund" /\ universe' = "obtained"
           ELSE /\ symbols' = symbols
                /\ pc' = AfterFailedFallback
                /\ universe' = "failed"
    /\ idx' = 1
    /\ attempt' = 0
    /\ UNCHANGED <<regime, qualified_fundamentals, qualified_stocks,
                   signaled, data, dataFor, log_calls, messages, charts,
                   market, sectorOf, fundOf, screened, techSeen, sigSeen,
                   problems, arg, ret>>

\* Faulty variant of SectorExcluded: the sector is not looked at
SectorExcluded_Never(sector) == FALSE

\* `if sector and sector in EXCLUDED_SECTORS`
SectorExcluded(sector) == sector # None /\ sector[1] \in EXCLUDED_SECTORS

\* `if data and passes_fundamental_filters(data)`
FundamentalsQualify(f) == f # None /\ passes_fundamental_filters(f[1])

FundIteration(sp, fp) ==
    /\ pc = "fund"
    /\ idx <= Len(symbols)
    /\ LET symbol == symbols[idx]
           sector == get_sector(sp)
           f == get_fundamentals(fp)
       IN  /\ screened' = screened \cup {symbol}
           /\ sectorOf' = [sectorOf EXCEPT ![symbol] = sector]
           /\ IF SectorExcluded(sector)
              THEN UNCHANGED <<fundOf, qualified_fundamentals>>
                   /\ problems' = problems
              ELSE /\ fundOf' = [fundOf EXCEPT ![symbol] = f]
                   /\ qualified_fundamentals' =
                         IF FundamentalsQualify(f)
                         THEN Append(qualified_fundamentals, symbol)
                         ELSE qualified_fundamentals
                   /\ problems' = problems
                         \cup (IF sector = None THEN {<<symbol, "sector">>}
                               ELSE {})
                         \cup (IF f = None THEN {<<symbol, "fundamentals">>}
                               ELSE {})
    /\ idx' = idx + 1
    /\ UNCHANGED universe
    /\ UNCHANGED <<pc, regime, attempt, symbols, qualified_stocks, signaled,
                   data, dataFor, log_calls, messages, charts, market,
                   techSeen, sigSeen, arg, ret>>

FundDone ==
    /\ pc = "fund"
    /\ idx > Len(symbols)
    /\ pc' = "tech"
    /\ idx' = 1
    /\ qualified_stocks' = <<>>
    /\ UNCHANGED universe
    /\ UNCHANGED <<regime, attempt, symbols, qualified_fundamentals, signaled,
                   data, dataFor, log_calls, messages, charts, market,
                   sectorOf, fundOf, screened, techSeen, sigSeen, problems,
                   arg, ret>>

\* Faulty variant of OnSymbolError: the exception leaves run_bot
OnSymbolError_Propagates(stage) == "aborted"

\* `except Exception` inside a loop: log a warning, go on with the loop
OnSymbolError(stage) == stage

TechIteration(dl) ==
    /\ pc = "tech"
    /\ idx <= Len(qualified_fundamentals)
    /\ LET stock == qualified_fundamentals[idx]
           verdict == IF dl.exc THEN "Raise"
                      ELSE TechnicalVerdict[dl.df]
       IN  /\ techSeen' = techSeen \cup {stock}
           /\ data' = IF dl.exc THEN data ELSE dl.df
           /\ dataFor' = IF dl.exc THEN dataFor
                         ELSE [stage |-> "tech", stock |-> stock]
           /\ qualified_stocks' =
                 IF verdict = "True" THEN Append(qualified_stocks, stock)
                 ELSE qualified_stocks
           /\ problems' = IF verdict = "Raise" \/ IsNoneOrEmpty(dl.df)
                          THEN problems \cup {<<stock, "tech">>}
                          ELSE problems
           /\ pc' = IF verdict = "Raise" THEN OnSymbolError("tech") ELSE "tech"
    /\ idx' = idx + 1
    /\ UNCHANGED universe
    /\ UNCHANGED <<regime, attempt, symbols, qualified_fundamentals, signaled,
                   log_calls, messages, charts, market, sectorOf, fundOf,
                   screened, sigSeen, arg, ret>>

TechDone ==
    /\ pc = "tech"
    /\ idx > Len(qualified_fundamentals)
    /\ pc' = "signal"
    /\ idx' = 1
    /\ signaled' = <<>>
    /\ UNCHANGED universe
    /\ UNCHANGED <<regime, attempt, symbols, qualified_fundamentals,
                   qualified_stocks, data, dataFor, log_calls, messages,
                   charts, market, sectorOf, fundOf, screened, techSeen,
                   sigSeen, problems, arg, ret>>

\* entry = data['Close'].iloc[-1], in hundredths
EntryOf(df) == Last(df.Close) * 100

\* Faulty variant of StopOf: the stop is put above the entry
StopOf_Above(entry) == (entry * (200 - STOP_PCT)) \div 100

\* stop = entry * 0.96 and target = entry * 1.06
StopOf(entry) == (entry * STOP_PCT) \div 100
TargetOf(entry) == (entry * TARGET_PCT) \div 100

\* the arguments of one log_trade call; written: the row reached the file
LogCall(stock, sig, df, written) ==
    LET entry == EntryOf(df)
        stop == StopOf(entry)
    IN  [stock |-> stock, signal |-> sig, entry |-> entry, stop_loss |-> stop,
         target |-> TargetOf(entry),
         quantity |-> calculate_position_size(CAPITAL, RISK_HUNDREDTHS,
                                              entry, stop),
         written |-> written]

\* the message that follows a log_trade call
SignalMsg(c) ==
    Msg(c.signal, <<c.stock>>, c.quantity, c.entry, c.stop_loss, c.target)

SignalIteration(dl, logOK, chartOK) ==
    /\ pc = "signal"
    /\ idx <= Len(qualified_stocks)
    /\ LET stock == qualified_stocks[idx]
           skipped == ~dl.exc /\ IsNoneOrEmpty(dl.df)
           unreadable == dl.exc \/ (~skipped /\ dl.df.kind = "NoClose")
           sig == IF unreadable \/ skipped THEN "NoSignal"
                  ELSE SignalVerdict[dl.df]
           emits == sig \in {"Pullback", "Breakout"}
           logged == emits /\ logOK
           charting == ~unreadable /\ ~skipped /\ sig # "Raise"
                       /\ (emits => logOK)
           error == unreadable \/ sig = "Raise" \/ (emits /\ ~logOK)
                    \/ (charting /\ ~chartOK)
       IN  /\ sigSeen' = sigSeen \cup {stock}
           /\ data' = IF dl.exc THEN data ELSE dl.df
           /\ dataFor' = IF dl.exc THEN dataFor
                         ELSE [stage |-> "signal", stock |-> stock]
           /\ log_calls' = IF emits
                           THEN Append(log_calls,
                                       LogCall(stock, sig, dl.df, logOK))
                           ELSE log_calls
           /\ messages' = IF logged
                          THEN Append(messages,
                                  SignalMsg(LogCall(stock, sig, dl.df, logOK)))
                          ELSE messages
           /\ signaled' = IF logged THEN Append(signaled, stock) ELSE signaled
           /\ charts' = IF charting /\ chartOK THEN charts \cup {stock}
                        ELSE charts
           /\ problems' = problems
                 \cup (IF unreadable \/ skipped \/ sig = "Raise"
                       THEN {<<stock, "signal">>} ELSE {})
                 \cup (IF emits /\ ~logOK THEN {<<stock, "log">>} ELSE {})
                 \cup (IF charting /\ ~chartOK THEN {<<stock, "chart">>}
                       ELSE {})
           /\ pc' = IF error THEN OnSymbolError("signal") ELSE "signal"
    /\ idx' = idx + 1
    /\ UNCHANGED universe
    /\ UNCHANGED <<regime, attempt, symbols, qualified_fundamentals,
                   qualified_stocks, market, sectorOf, fundOf, screened,
                   techSeen, arg, ret>>

Finalize ==
    /\ pc = "signal"
    /\ idx > Len(qualified_stocks)
    /\ messages' = Append(messages,
                          IF signaled # <<>>
                          THEN Msg("signals", signaled, 0, 0, 0, 0)
                          ELSE Msg("no_signals", <<>>, 0, 0, 0, 0))
    /\ pc' = "done"
    /\ UNCHANGED universe
    /\ UNCHANGED <<regime, attempt, symbols, idx, qualified_fundamentals,
                   qualified_stocks, signaled, data, dataFor, log_calls,
                   charts, market, sectorOf, fundOf, screened, techSeen,
                   sigSeen, problems, arg, ret>>

Next ==
    \/ \E mk \in MarketInputs : Classify(mk)
    \/ \E w \in UniverseInputs : WikiAttempt(w)
    \/ \E f \in UniverseInputs : Fallback(f)
    \/ \E sp \in SectorPages, fp \in FundPages : FundIteration(sp, fp)
    \/ FundDone
    \/ \E dl \in TechDownloads : TechIteration(dl)
    \/ TechDone
    \/ \E dl \in SignalDownloads, logOK \in BOOLEAN,
          chartOK \in BOOLEAN : SignalIteration(dl, logOK, chartOK)
    \/ Finalize

Spec == Init /\ [][Next]_vars

\* the rows of trade_log.csv
trade_log == SelectSeq(log_calls, LAMBDA c : c.written)

(***************************************************************************)
(* Properties of a run.                                                    *)
(***************************************************************************)
CallsFor(s) == SelectSeq(log_calls, LAMBDA c : c.stock = s)
SignalMsgsFor(s) ==
    SelectSeq(messages, LAMBDA m : m.kind \in {"Pullback", "Breakout"}
                                   /\ m.stocks = <<s>>)
Failed(s, what) == <<s, what>> \in problems
\* `data` is the readable, non-empty frame the third loop downloaded for s
SignalFrameOf(s) ==
    /\ dataFor = [stage |-> "signal", stock |-> s]
    /\ data.kind = "Frame"
    /\ data.rows > 0

\* C1: when the regime is Bearish the run is over at once and nothing was
\* screened, logged, charted or announced for any symbol: the only messages
\* are the regime and the "no trades" notice.
C1_BearishEmitsNothing ==
    regime = "Bearish" =>
        /\ pc = "done"
        /\ universe = "unset" /\ symbols = <<>> /\ screened = {}
        /\ techSeen = {} /\ sigSeen = {}
        /\ log_calls = <<>> /\ signaled = <<>> /\ charts = {}
        /\ \A i \in 1..Len(messages) :
              messages[i].kind \in {"regime", "no_trades"}
        /\ \E i \in 1..Len(messages) : messages[i].kind = "no_trades"

C1_Witness ==
    /\ regime = "Bearish"
    /\ pc = "done"
    /\ market = "obtained"
    /\ Len(messages) = 2

\* C2: no stock has two log_trade calls or two signal messages; for the
\* stock whose frame the third loop just read, a true pullback gives exactly
\* one call, of type Pullback, even when the breakout condition holds too;
\* a breakout without pullback gives exactly one Breakout; neither gives none.
C2_OneRecordPullbackFirst ==
    /\ \A i, j \in 1..Len(log_calls) :
          log_calls[i].stock = log_calls[j].stock => i = j
    /\ \A s \in SymbolNames : Len(SignalMsgsFor(s)) <= 1
    /\ \A s \in SymbolNames :
          SignalFrameOf(s) =>
             LET calls == CallsFor(s)
                 p == PullbackVerdict[data] = "True"
                 b == BreakoutVerdict[data] = "True"
             IN  /\ p => Len(calls) = 1 /\ calls[1].signal = "Pullback"
                 /\ (~p /\ b) => Len(calls) = 1 /\ calls[1].signal = "Breakout"
                 /\ (~p /\ ~b) => calls = <<>>
                 /\ \A i \in 1..Len(SignalMsgsFor(s)) :
                       SignalMsgsFor(s)[i].kind = calls[1].signal

C2_Witness ==
    \E s \in SymbolNames :
        /\ SignalFrameOf(s)
        /\ PullbackVerdict[data] = "True"
        /\ BreakoutVerdict[data] = "True"
        /\ Len(CallsFor(s)) = 1
        /\ CallsFor(s)[1].signal = "Pullback"

\* C3: a run never aborts once it has its symbols, whatever fails for a
\* symbol; each loop visits every element of its list; and a failure takes
\* out the symbol it hits: no fundamentals, no place among the qualified; a
\* failed technical download or filter, no place among the qualified
\* stocks; an unreadable signal frame, no call; a failed log write, no
\* message and no place among the signaled.
C3_FailuresStayLocal ==
    /\ pc = "aborted" =>
          screened = {} /\ techSeen = {} /\ sigSeen = {} /\ symbols = <<>>
    /\ pc \in {"tech", "signal", "done"} /\ regime # "Bearish" =>
          Range(symbols) \subseteq screened
    /\ pc \in {"signal", "done"} /\ regime # "Bearish" =>
          Range(qualified_fundamentals) \subseteq techSeen
    /\ pc = "done" /\ regime # "Bearish" =>
          Range(qualified_stocks) \subseteq sigSeen
    /\ \A s \in SymbolNames :
          /\ (s \in screened /\ fundOf[s] = None) =>
                s \notin Range(qualified_fundamentals)
          /\ Failed(s, "tech") => s \notin Range(qualified_stocks)
          /\ Failed(s, "signal") => CallsFor(s) = <<>> /\ s \notin Range(signaled)
          /\ Failed(s, "log") =>
                /\ s \notin Range(signaled)
                /\ SignalMsgsFor(s) = <<>>
                /\ s \notin charts

C3_Witness ==
    /\ pc = "done"
    /\ \E s, t \in SymbolNames :
          /\ symbols = <<s, t>>
          /\ Failed(s, "tech") \/ Failed(s, "signal") \/ Failed(s, "log")
          /\ t \in Range(signaled)
          /\ t \in charts

\* C4, as the claim states it: a run whose market-wide series could not be
\* obtained aborts, so it never gets past the regime step.
C4_MarketFailureAborts ==
    market = "failed" => pc \in {"regime", "aborted"}

\* C4, amended: a run aborts exactly when, the regime not being Bearish,
\* every Wikipedia attempt and the fallback failed to give the symbols; it
\* aborts before any symbol is touched; market-wide series that cannot be
\* obtained make the regime Neutral and the run goes on.
C4_AbortsOnlyOnUniverse ==
    /\ pc = "aborted" <=> universe = "failed"
    /\ universe = "failed" =>
          regime \in {"Bullish", "Neutral"} /\ screened = {} /\ messages # <<>>
    /\ market = "failed" => regime = "Neutral"
    /\ regime = "Bearish" => universe = "unset" /\ pc = "done"
    /\ pc \in {"fund", "tech", "signal"} => universe = "obtained"

C4_Witness ==
    /\ pc = "aborted"
    /\ universe = "failed"
    /\ market = "failed"

\* C5: every log_trade call is for a symbol that was screened, whose sector
\* was not excluded, whose fundamentals were there and passed, that the
\* technical filter passed and that the third loop reached; each stage
\* works only on what the stage before let through, and a symbol of an
\* excluded sector never has its fundamentals fetched.
C5_StagesInOrder ==
    /\ \A i \in 1..Len(log_calls) :
          LET s == log_calls[i].stock
          IN  /\ s \in screened
              /\ ~(sectorOf[s] # None /\ sectorOf[s][1] \in EXCLUDED_SECTORS)
              /\ fundOf[s] # None
              /\ passes_fundamental_filters(fundOf[s][1])
              /\ s \in Range(qualified_fundamentals)
              /\ s \in techSeen
              /\ s \in Range(qualified_stocks)
              /\ s \in sigSeen
    /\ sigSeen \subseteq Range(qualified_stocks)
    /\ Range(qualified_stocks) \subseteq techSeen
    /\ techSeen \subseteq Range(qualified_fundamentals)
    /\ Range(qualified_fundamentals) \subseteq screened
    /\ screened \subseteq Range(symbols)
    /\ \A s \in screened :
          /\ (sectorOf[s] # None /\ sectorOf[s][1] \in EXCLUDED_SECTORS) =>
                fundOf[s] = None /\ s \notin Range(qualified_fundamentals)
          /\ s \in Range(qualified_fundamentals) <=>
                (fundOf[s] # None /\ fundOf[s][1]["market_cap"] > MIN_MARKET_CAP
                 /\ fundOf[s][1]["debt_to_equity"] < MAX_D2E_TENTHS
                 /\ fundOf[s][1]["roce"] > MIN_ROCE
                 /\ fundOf[s][1]["sales_growth_5y"] > MIN_SALES_GROWTH
                 /\ fundOf[s][1]["profit_growth_5y"] > MIN_PROFIT_GROWTH)
    /\ \A s \in SymbolNames :
          dataFor = [stage |-> "tech", stock |-> s] =>
             (s \in Range(qualified_stocks) <=> TechnicalVerdict[data] = "True")
    /\ techSeen # {} => pc \in {"tech", "signal", "done"}
    /\ sigSeen # {} => pc \in {"signal", "done"}

C5_Witness ==
    \E s, t \in SymbolNames :
        /\ CallsFor(s) # <<>>
        /\ sectorOf[s] = None
        /\ t \in screened
        /\ sectorOf[t] = Some("Banking")
        /\ pc = "done"

\* C7, as the claim states it: on a frame of fewer rows than the technical
\* filter asks for, neither detector reports a signal or raises, and the
\* third loop makes no log_trade call for the stock.
C7_ShortFrameNoSignal ==
    \A s \in SymbolNames :
        (SignalFrameOf(s) /\ data.rows < TECH_MIN_BARS) =>
            /\ PullbackVerdict[data] = "False"
            /\ BreakoutVerdict[data] = "False"
            /\ CallsFor(s) = <<>>

\* C10: every log_trade call has stop < entry < target, with stop exactly
\* 0.96 and target exactly 1.06 of the entry, the quantity the floor of
\* (CAPITAL * 0.02) / (entry - stop); the entry is the last close of the
\* frame the call was made for, and the message carries the same figures.
C10_RecordFigures ==
    /\ \A i \in 1..Len(log_calls) :
          LET c == log_calls[i]
              dist == c.entry - c.stop_loss
          IN  /\ c.stop_loss < c.entry /\ c.entry < c.target
              /\ c.stop_loss * 100 = c.entry * STOP_PCT
              /\ c.target * 100 = c.entry * TARGET_PCT
              /\ c.quantity >= 0
              /\ c.quantity * dist <= CAPITAL * RISK_HUNDREDTHS
              /\ CAPITAL * RISK_HUNDREDTHS < (c.quantity + 1) * dist
              /\ SignalFrameOf(c.stock) => c.entry = 100 * data.Close[data.rows]
    /\ \A i \in 1..Len(messages) :
          messages[i].kind \in {"Pullback", "Breakout"} =>
             \E j \in 1..Len(log_calls) :
                 /\ log_calls[j].written
                 /\ messages[i] = SignalMsg(log_calls[j])

C10_Witness ==
    \E s \in SymbolNames :
        /\ SignalFrameOf(s)
        /\ Len(CallsFor(s)) = 1
        /\ CallsFor(s)[1].entry = 100 * (BasePrice + 1)
        /\ SignalMsgsFor(s) # <<>>

(***************************************************************************)
(* The functions on their own: a call is drawn, then made.                 *)
(***************************************************************************)
Called(fn) == arg.fn = fn /\ ret.fn = fn

\* classify_market_regime on every market input of the model
InitRegime ==
    /\ RunInit
    /\ arg \in {[fn |-> "classify_market_regime", mk |-> m] : m \in MarketInputs}
    /\ ret = NoCall

CallRegime ==
    /\ arg.fn = "classify_market_regime"
    /\ ret.fn = "none"
    /\ ret' = [fn |-> arg.fn, value |-> classify_market_regime(arg.mk)]
    /\ UNCHANGED <<arg, runVars>>

SpecRegime == InitRegime /\ [][CallRegime]_vars

\* the fundamental screen of one symbol: get_fundamentals, then
\* `data and passes_fundamental_filters(data)`
CellTexts(threshold) ==
    {None, Garbage, Num(threshold - 1), Num(threshold), Num(threshold + 1)}

ThresholdOf ==
    [k \in FundFields |->
        IF k = "market_cap" THEN MIN_MARKET_CAP
        ELSE IF k = "roce" THEN MIN_ROCE
        ELSE IF k = "debt_to_equity" THEN MAX_D2E_TENTHS
        ELSE IF k = "sales_growth_5y" THEN MIN_SALES_GROWTH
        ELSE MIN_PROFIT_GROWTH]

ScreenPages ==
    {Page(TRUE, 0, None, GoodCells), Page(FALSE, 404, None, GoodCells)}
    \cup {Page(FALSE, HTTP_OK, None, c) :
            c \in {c \in [FundFields -> UNION {CellTexts(ThresholdOf[k]) :
                                                k \in FundFields}] :
                      \A k \in FundFields : c[k] \in CellTexts(ThresholdOf[k])}}

InitScreen ==
    /\ RunInit
    /\ arg \in {[fn |-> "screen", page |-> pg] : pg \in ScreenPages}
    /\ ret = NoCall

CallScreen ==
    /\ arg.fn = "screen"
    /\ ret.fn = "none"
    /\ LET f == get_fundamentals(arg.page)
       IN  ret' = [fn |-> arg.fn, value |-> f, passes |-> FundamentalsQualify(f)]
    /\ UNCHANGED <<arg, runVars>>

SpecScreen == InitScreen /\ [][CallScreen]_vars

\* calculate_position_size; prices in hundredths, the risk in hundredths
MaxRisk == 3
Capitals == {1, 1000, CAPITAL}
SizePrices ==
    {100 * q : q \in Prices} \cup {STOP_PCT * q : q \in Prices}
    \cup {9600, 10000}

InitSize ==
    /\ RunInit
    /\ arg \in {[fn |-> "calculate_position_size", capital |-> c,
                 risk_per_trade |-> r, entry |-> e, stop |-> st] :
                   c \in Capitals, r \in 0..MaxRisk, e \in SizePrices,
                   st \in SizePrices}
    /\ ret = NoCall

CallSize ==
    /\ arg.fn = "calculate_position_size"
    /\ ret.fn = "none"
    /\ ret' = [fn |-> arg.fn,
               value |-> calculate_position_size(arg.capital,
                            arg.risk_per_trade, arg.entry, arg.stop)]
    /\ UNCHANGED <<arg, runVars>>

SpecSize == InitSize /\ [][CallSize]_vars

(***************************************************************************)
(* Properties of the functions.                                            *)
(***************************************************************************)
\* the regime the rule of the claim gives, with minNifty index closes asked
RegimeRule(mk, minNifty, r) ==
    IF ~mk.err /\ Len(mk.nifty) >= minNifty /\ Len(mk.vix) >= 10
    THEN LET price == mk.nifty[Len(mk.nifty)]
             sum200 == SumRange(mk.nifty, Len(mk.nifty) - 199, Len(mk.nifty))
             above == price * 200 > sum200
             below == price * 200 < sum200
             vixLast == mk.vix[Len(mk.vix)]
         IN  /\ r = "Bullish" <=> (above /\ vixLast < 15)
             /\ r = "Bearish" <=> (~(above /\ vixLast < 15)
                                   /\ (below \/ vixLast > 20))
             /\ r \in {"Bullish", "Bearish", "Neutral"}
             /\ below => r # "Bullish"
    ELSE r = "Neutral"

\* C6, as the claim states it: the rule applies from 200 index closes and
\* 10 volatility closes on, and below that the result is Neutral.
C6_RegimeFrom200 ==
    Called("classify_market_regime") => RegimeRule(arg.mk, 200, ret.value)

\* C6, amended: the rule applies from 220 index closes and 10 volatility
\* closes on; with fewer of either, or when a download fails, the result
\* is Neutral.
C6_RegimeFrom220 ==
    Called("classify_market_regime") => RegimeRule(arg.mk, 220, ret.value)

C6_Witness ==
    /\ Called("classify_market_regime")
    /\ Len(arg.mk.nifty) = 219
    /\ Len(arg.mk.vix) = 10
    /\ arg.mk.nifty[219] * 200 > SumRange(arg.mk.nifty, 20, 219)
    /\ arg.mk.vix[10] < 15
    /\ ret.value = "Neutral"

\* C8: the screen passes exactly when the page was read, all five texts
\* are there and are numbers, and market cap > 500, debt to equity < 0.2,
\* roce > 20, sales growth > 10 and profit growth > 15; a value on its
\* threshold fails, a missing field gives no record and no pass.
C8_FundamentalScreen ==
    Called("screen") =>
        LET pg == arg.page
            has(k) == pg.cells[k] # None /\ pg.cells[k][1].num
            v(k) == pg.cells[k][1].val
            read == ~pg.exc /\ pg.status = 200 /\ \A k \in FundFields : has(k)
        IN  /\ ret.value # None <=> read
            /\ read => \A k \in FundFields : ret.value[1][k] = v(k)
            /\ ret.passes <=>
                  (/\ read
                   /\ v("market_cap") > 500
                   /\ v("debt_to_equity") < 2
                   /\ v("roce") > 20
                   /\ v("sales_growth_5y") > 10
                   /\ v("profit_growth_5y") > 15)

C8_Witness ==
    /\ Called("screen")
    /\ ret.value # None
    /\ ret.value[1]["market_cap"] = 500
    /\ ret.value[1]["debt_to_equity"] = 1
    /\ ret.value[1]["roce"] = 21
    /\ ret.value[1]["sales_growth_5y"] = 11
    /\ ret.value[1]["profit_growth_5y"] = 16
    /\ ~ret.passes

\* C9: the quantity is 0 when entry and stop coincide, and otherwise the
\* floor of capital * riskPerTrade / |entry - stop|: the greatest q with
\* q * |entry - stop| <= capital * riskPerTrade; it is never negative, and
\* (100000, 0.02, 100, 96) gives 500, (100000, 0.02, 100, 100) gives 0.
C9_PositionSize ==
    Called("calculate_position_size") =>
        LET dist == IF arg.entry >= arg.stop THEN arg.entry - arg.stop
                    ELSE arg.stop - arg.entry
            budget == arg.capital * arg.risk_per_trade
            q == ret.value
        IN  /\ q \in Nat
            /\ dist = 0 => q = 0
            /\ dist > 0 => q * dist <= budget /\ budget < (q + 1) * dist
            /\ (arg.capital = 100000 /\ arg.risk_per_trade = 2
                /\ arg.entry = 10000 /\ arg.stop = 9600) => q = 500
            /\ (arg.capital = 100000 /\ arg.risk_per_trade = 2
                /\ arg.entry = 10000 /\ arg.stop = 10000) => q = 0

C9_Witness ==
    /\ Called("calculate_position_size")
    /\ arg.capital = 100000 /\ arg.risk_per_trade = 2
    /\ arg.entry = 10000 /\ arg.stop = 9600
    /\ ret.value = 500

====
